---- MODULE Spec2Model ----
(***************************************************************************)
(* State-machine model of the stage-pipeline controller of src/app.py: a   *)
(* Streamlit script that is re-executed top to bottom on every user        *)
(* interaction.  One action of the model is one execution of the script,   *)
(* triggered by one event (a plain render, or a click on Submit Story,     *)
(* Refine, Approve or Save Final Report).  The session state               *)
(* (step_index, conversation, story, completed) persists between runs.     *)
(* The earlier variant of the controller, src/unnamed/part_000, is modelled *)
(* next to it (variables v_...) and is run side by side with it in         *)
(* SpecPair.                                                               *)
(*                                                                         *)
(* Indices are 0-based as in the Python source; the TLA+ sequence          *)
(* conversation keeps record idx at position idx + 1.                      *)
(***************************************************************************)
EXTENDS Integers, Sequences, FiniteSets, TLC

----------------------------------------------------------------------------
(* Bounds of the model                                                     *)

\* longest text the user types into the story area
MaxStoryLen == 2
\* longest text the user types into the feedback input
MaxFeedbackLen == 1
\* number of Refine clicks that reach the backend in one run of the model
MaxRefines == 2
\* the per-stage count of generation calls saturates at this value
MaxGenCalls == 2
\* number of times the backend changes the answer it is about to give
MaxBackendChanges == 1

----------------------------------------------------------------------------
(* Stage catalog                                                           *)

STEPS ==
  << "Story Input", "Focus Generation", "Issues Generation", "Tension Matrix",
     "Dilemmas & Ranking", "Value Propositions", "SWOT Analysis",
     "Business Model Canvas" >>

\* the template of each LLM-driven stage, abbreviated to its first sentence
PROMPTS ==
  [s \in {STEPS[i] : i \in 2..Len(STEPS)} |->
     CASE s = "Focus Generation" ->
            "You are given the user's story below. Apply the Dilemma Triangle methodology..."
       [] s = "Issues Generation" ->
            "Given the focus areas (and drivers), list 3-6 issues for each focus area..."
       [] s = "Tension Matrix" ->
            "Given the issues across focuses, generate a tension matrix..."
       [] s = "Dilemmas & Ranking" ->
            "From the tension matrix, generate dilemmas phrased as tradeoffs..."
       [] s = "Value Propositions" ->
            "For the top dilemmas, propose 2-5 concrete only 2 or 3 value propositions..."
       [] s = "SWOT Analysis" ->
            "Perform a SWOT analysis on each provided value proposition..."
       [] s = "Business Model Canvas" ->
            "Generate a Business Model Canvas (9 blocks) for each value proposition..."]

\* PROMPTS.get(current_step, "")
PromptsGet(s) == IF s \in DOMAIN PROMPTS THEN PROMPTS[s] ELSE ""

----------------------------------------------------------------------------
(* Texts and literals                                                      *)

\* a text is a sequence of characters; " " is the only whitespace character
Chars == {" ", "a"}
TextsUpTo(max) == UNION {[1..n -> Chars] : n \in 0..max}
StoryTexts == TextsUpTo(MaxStoryLen)
FeedbackTexts == TextsUpTo(MaxFeedbackLen)

RECURSIVE lstrip(_)
lstrip(s) ==
  IF s = <<>> THEN s
  ELSE IF Head(s) = " " THEN lstrip(Tail(s)) ELSE s

RECURSIVE rstrip(_)
rstrip(s) ==
  IF s = <<>> THEN s
  ELSE IF s[Len(s)] = " " THEN rstrip(SubSeq(s, 1, Len(s) - 1)) ELSE s

\* str.strip()
strip(s) == rstrip(lstrip(s))

StorySavedLiteral == "Story saved successfully."
ErrorNoValidResponse == "Error: No valid response."
ErrorNoRefinedResponse == "Error: No refined response."

----------------------------------------------------------------------------
(* The generation backend: model.generate_content(prompt)                  *)

BackendTexts == {"r1", "r2"}

\* what one call of generate_content does: it returns an object with a
\* .text, returns an object without one, or raises
Outcomes ==
  {[kind |-> "text", text |-> t] : t \in BackendTexts}
    \cup {[kind |-> "notext", text |-> ""], [kind |-> "raise", text |-> ""]}

----------------------------------------------------------------------------
(* Messages a run of the script emits                                      *)

NoNotice == "none"
StorySubmitted == "Story submitted. Proceeding to Focus Generation."
StoryWarning == "Please enter the story before continuing."
GeneratedNotice == "generated successfully."
RefinedNotice == "Response refined successfully."
FeedbackWarning == "Please enter feedback before refining."
ApprovedNotice == "approved. Moving to next step"
CompletedNotice == "All steps completed! You can now export the final report."
SavedNotice == "Saved successfully"
SaveErrorNotice == "Error saving file"
\* an exception that no handler of the script catches ends the run
UncaughtException == "uncaught exception"

----------------------------------------------------------------------------
VARIABLES
  step_index,     \* st.session_state.step_index
  conversation,   \* st.session_state.conversation
  story,          \* st.session_state.story
  completed,      \* st.session_state.completed
  report,         \* the sections of BMC_Full_Report.txt on disk
  backend,        \* the outcome of the next generate_content call
  backendChanges, \* how often the backend has changed that outcome
  genCalls,       \* per stage, calls of generate_content by the generate branch
  refineCalls,    \* calls of generate_content by the refine handler
  event,          \* the event that triggered the latest run of the script
  notice,         \* the message the latest run of the script emitted
  request,        \* the prompt the latest run passed to generate_content
  branch_selection, \* the sub-item the user picked out of a stage's output
  v_step_index,   \* st.session_state.step_index of src/unnamed/part_000
  v_conversation, \* st.session_state.conversation of src/unnamed/part_000
  v_story,        \* st.session_state.story of src/unnamed/part_000
  v_report        \* the sections of the file src/unnamed/part_000 writes

vars ==
  << step_index, conversation, story, completed, report, backend,
     backendChanges, genCalls, refineCalls, event, notice, request,
     branch_selection, v_step_index, v_conversation, v_story, v_report >>

\* the state of the variant controller src/unnamed/part_000
variant == << v_step_index, v_conversation, v_story, v_report >>

\* the session state of the controller
pipeline == << step_index, conversation, story, completed >>

\* the record of the calls made to the backend
calls == << genCalls, refineCalls >>

Ev(k, t) == [kind |-> k, text |-> t]

\* conversation[idx] of the source
Item(idx) == conversation[idx + 1]

current_step == STEPS[step_index + 1]

\* a run that does not call generate_content
NoRequest == <<>>

\* no branch selected
NoSelection == "none"

Init ==
  /\ step_index = 0
  /\ conversation = <<>>
  /\ story = <<>>
  /\ completed = FALSE
  /\ report = <<>>
  /\ backend \in Outcomes
  /\ backendChanges = 0
  /\ genCalls = [i \in 1..(Len(STEPS) - 1) |-> 0]
  /\ refineCalls = 0
  /\ event = Ev("start", <<>>)
  /\ notice = NoNotice
  /\ request = NoRequest
  /\ branch_selection = NoSelection
  /\ v_step_index = 0
  /\ v_conversation = <<>>
  /\ v_story = <<>>
  /\ v_report = <<>>

----------------------------------------------------------------------------
(* Prompt construction                                                     *)

\* f"### Step: {c['step']}\n{c['response']}"
StepOutput(c) == << "### Step: ", c.step, "\n", c.response >>

\* "\n\n".join(...) over the records of conv, as a flat sequence of pieces
RECURSIVE JoinOutputs(_)
JoinOutputs(conv) ==
  IF conv = <<>> THEN <<>>
  ELSE IF Len(conv) = 1 THEN StepOutput(conv[1])
  ELSE StepOutput(conv[1]) \o << "\n\n" >> \o JoinOutputs(Tail(conv))

prev_outputs == JoinOutputs(conversation)

base_prompt == PromptsGet(current_step)

story_context == story

\* only the output of the latest record fed forward
final_promptLastOnly ==
  << base_prompt, "\n\nContext:\n" >> \o story_context
    \o << "\n\nPrevious Outputs:\n" >>
    \o StepOutput(conversation[Len(conversation)])

final_prompt ==
  << base_prompt, "\n\nContext:\n" >> \o story_context
    \o << "\n\nPrevious Outputs:\n" >> \o prev_outputs

\* feedback and output in each other's place
refine_promptSwapped(item, feedback_text) ==
  << "Refine the following output based on this feedback.\n\n", "Feedback:\n",
     item.response, "\n\nOriginal Output:\n" >> \o feedback_text

refine_prompt(item, feedback_text) ==
  << "Refine the following output based on this feedback.\n\n", "Feedback:\n" >>
    \o feedback_text \o << "\n\nOriginal Output:\n", item.response >>

----------------------------------------------------------------------------
(* Story input: the Submit Story handler                                   *)

\* the test without the strip
StoryAcceptedRaw(user_story) == user_story # <<>>

\* if user_story.strip():
StoryAccepted(user_story) == strip(user_story) # <<>>

\* the record with the text as typed, not stripped
StoryRecordRaw(user_story) ==
  [step |-> "Story Input", prompt |-> user_story,
   response |-> StorySavedLiteral, feedback |-> <<>>]

\* the record appended for stage 0
StoryRecord(user_story) ==
  [step |-> "Story Input", prompt |-> strip(user_story),
   response |-> StorySavedLiteral, feedback |-> <<>>]

\* the story kept as typed
StoryValueRaw(user_story) == user_story

\* st.session_state.story = user_story.strip()
StoryValue(user_story) == strip(user_story)

Submit(user_story) ==
  /\ current_step = "Story Input"
  /\ event' = Ev("submit", user_story)
  /\ IF StoryAccepted(user_story)
       THEN /\ story' = StoryValue(user_story)
            /\ conversation' = Append(conversation, StoryRecord(user_story))
            /\ step_index' = step_index + 1
            /\ notice' = StorySubmitted
       ELSE /\ notice' = StoryWarning
            /\ UNCHANGED << story, conversation, step_index >>
  /\ request' = NoRequest
  /\ UNCHANGED << completed, report, backend, backendChanges, calls,
                  branch_selection >>

----------------------------------------------------------------------------
(* LLM-driven stages: generate if not already done                         *)

\* the guard off by one
NeedsGenerationOffByOne == Len(conversation) <= step_index + 1

\* the guard left out
NeedsGenerationAlways == TRUE

\* if len(st.session_state.conversation) <= st.session_state.step_index:
NeedsGeneration == Len(conversation) <= step_index

\* response.text if hasattr(response, "text") else "Error: No valid response."
text_response(response) ==
  IF response.kind = "text" THEN response.text ELSE ErrorNoValidResponse

\* the stage name taken at the 1-based position step_index
GeneratedRecordStepBefore(response) ==
  [step |-> STEPS[step_index], prompt |-> final_prompt,
   response |-> text_response(response), feedback |-> <<>>]

GeneratedRecord(response) ==
  [step |-> current_step, prompt |-> final_prompt,
   response |-> text_response(response), feedback |-> <<>>]

Saturate(n) == IF n < MaxGenCalls THEN n + 1 ELSE n

\* the generate branch; generate_content is called once, and when it raises
\* nothing catches the exception: the run ends before the append
Generate ==
  /\ genCalls' = [genCalls EXCEPT ![step_index] = Saturate(@)]
  /\ request' = final_prompt
  /\ IF backend.kind = "raise"
       THEN /\ notice' = UncaughtException
            /\ UNCHANGED conversation
       ELSE /\ conversation' = Append(conversation, GeneratedRecord(backend))
            /\ notice' = GeneratedNotice
  /\ UNCHANGED << step_index, story, completed, refineCalls >>

\* a run of the script in which no button is clicked
Render ==
  /\ event' = Ev("render", <<>>)
  /\ IF current_step # "Story Input" /\ NeedsGeneration
       THEN Generate
       ELSE /\ notice' = NoNotice
            /\ request' = NoRequest
            /\ UNCHANGED << pipeline, calls >>
  /\ UNCHANGED << report, backend, backendChanges, branch_selection >>

----------------------------------------------------------------------------
(* The display loop: refine and approve buttons of the record at the cursor *)

\* the loop reaches "if idx == st.session_state.step_index" for some record
HasButtons ==
  /\ current_step # "Story Input"
  /\ ~NeedsGeneration
  /\ step_index < Len(conversation)

\* the fallback literal of the generate branch pasted into the refine handler
refined_textPasted(refined) ==
  IF refined.kind = "text" THEN refined.text ELSE ErrorNoValidResponse

\* refined.text if hasattr(refined, "text") else "Error: No refined response."
refined_text(refined) ==
  IF refined.kind = "text" THEN refined.text ELSE ErrorNoRefinedResponse

\* the assignment to "feedback" left out
RefinedRecordNoFeedback(item, refined, feedback_text) ==
  [item EXCEPT !.response = refined_text(refined)]

\* the refinement prompt stored as the record's prompt
RefinedRecordWithPrompt(item, refined, feedback_text) ==
  [item EXCEPT !.response = refined_text(refined), !.feedback = feedback_text,
               !.prompt = refine_prompt(item, feedback_text)]

RefinedRecord(item, refined, feedback_text) ==
  [item EXCEPT !.response = refined_text(refined), !.feedback = feedback_text]

\* if feedback_text.strip():
FeedbackAccepted(feedback_text) == strip(feedback_text) # <<>>

\* the buttons put under the record before the cursor
ButtonIdxBefore == step_index - 1

\* the idx of the display loop for which idx == st.session_state.step_index
ButtonIdx == step_index

Refine(feedback_text) ==
  /\ HasButtons
  /\ event' = Ev("refine", feedback_text)
  /\ IF FeedbackAccepted(feedback_text)
       THEN /\ refineCalls < MaxRefines
            /\ refineCalls' = refineCalls + 1
            /\ request' = refine_prompt(Item(ButtonIdx), feedback_text)
            /\ IF backend.kind = "raise"
                 THEN /\ notice' = UncaughtException
                      /\ UNCHANGED conversation
                 ELSE /\ conversation' =
                           [conversation EXCEPT ![ButtonIdx + 1] =
                              RefinedRecord(Item(ButtonIdx), backend, feedback_text)]
                      /\ notice' = RefinedNotice
       ELSE /\ notice' = FeedbackWarning
            /\ request' = NoRequest
            /\ UNCHANGED << conversation, refineCalls >>
  /\ UNCHANGED << step_index, story, completed, report, backend,
                  backendChanges, genCalls, branch_selection >>

\* -= in place of +=
ApprovedIndexBack(i) == i - 1

\* the cursor moved past a stage that has no record yet
ApprovedIndexSkip(i) == i + 2

\* st.session_state.step_index += 1
ApprovedIndex(i) == i + 1

\* the test one stage short
HasNextStageShort == step_index < Len(STEPS) - 2

\* <= in place of <
HasNextStageLoose == step_index <= Len(STEPS) - 1

\* if st.session_state.step_index < len(STEPS) - 1:
HasNextStage == step_index < Len(STEPS) - 1

\* a flag that is flipped, not set
CompletedValueFlipped == ~completed

\* st.session_state.completed = True
CompletedValue == TRUE

Approve ==
  /\ HasButtons
  /\ event' = Ev("approve", <<>>)
  /\ request' = NoRequest
  /\ IF HasNextStage
       THEN /\ step_index' = ApprovedIndex(step_index)
            /\ notice' = ApprovedNotice
            /\ UNCHANGED completed
       ELSE /\ completed' = CompletedValue
            /\ notice' = CompletedNotice
            /\ UNCHANGED step_index
  /\ UNCHANGED << conversation, story, report, backend, backendChanges, calls,
                  branch_selection >>

----------------------------------------------------------------------------
(* Final export                                                            *)

\* the feedback block written for every record
SectionWithFeedback(c) ==
  << "## ", c.step, "\n", "### Prompt:\n" >> \o c.prompt
    \o << "\n\n", "### Response:\n", c.response, "\n\n" >>
    \o << "### Feedback:\n" >> \o c.feedback \o << "\n\n" >>

\* what the loop body writes for one record
Section(c) ==
  << "## ", c.step, "\n", "### Prompt:\n" >> \o c.prompt
    \o << "\n\n", "### Response:\n", c.response, "\n\n" >>
    \o (IF c.feedback # <<>>
          THEN << "### Feedback:\n" >> \o c.feedback \o << "\n\n" >>
          ELSE <<>>)

Document(conv) == [i \in 1..Len(conv) |-> Section(conv[i])]

\* every record is written; open() raises before the file is touched; or an
\* error surfaces after open() has truncated the file and before the buffered
\* sections reach it
IOOutcomes == {"ok", "open fails", "write fails"}

Save(io) ==
  /\ completed
  /\ event' = Ev("save", <<>>)
  /\ CASE io = "ok" ->
            /\ report' = Document(conversation)
            /\ notice' = SavedNotice
       [] io = "open fails" ->
            /\ report' = report
            /\ notice' = SaveErrorNotice
       [] io = "write fails" ->
            /\ report' = <<>>
            /\ notice' = SaveErrorNotice
  /\ request' = NoRequest
  /\ UNCHANGED << pipeline, backend, backendChanges, calls, branch_selection >>

----------------------------------------------------------------------------
(* The environment: the backend decides what its next call will do         *)

BackendChange ==
  /\ backendChanges < MaxBackendChanges
  /\ backendChanges' = backendChanges + 1
  /\ \E o \in Outcomes \ {backend} : backend' = o
  /\ UNCHANGED << pipeline, report, calls, event, notice, request,
                  branch_selection >>

----------------------------------------------------------------------------
(* Branch selection.  The controllers under src/ keep no selection and have *)
(* no such operation; it is modelled from the specification's description   *)
(* of selectBranch and is part of SpecBranch only.                          *)

\* the entries of a structured multi-option output the user can pick from
BranchItems == {"swot entry 1", "swot entry 2"}

\* a structured multi-option stage (SWOT Analysis) has a record
BranchStageRecorded ==
  \E i \in 1..Len(conversation) : conversation[i].step = "SWOT Analysis"

\* the selection kept as it was
SelectedValueKept(item) == branch_selection

\* branch_selection = item
SelectedValue(item) == item

SelectBranch(item) ==
  /\ BranchStageRecorded
  /\ event' = Ev("select", << item >>)
  /\ notice' = NoNotice
  /\ request' = NoRequest
  /\ branch_selection' = SelectedValue(item)
  /\ UNCHANGED << pipeline, report, backend, backendChanges, calls >>

----------------------------------------------------------------------------
(* The variant controller src/unnamed/part_000.  It keeps step_index,      *)
(* conversation and story, and no completed flag.  Each definition below   *)
(* is one run of its script, or a part of one, on the state v_...          *)

\* the template of each LLM-driven stage of the variant, abbreviated
v_PROMPTS ==
  [s \in {STEPS[i] : i \in 2..Len(STEPS)} |->
     CASE s = "Focus Generation" ->
            "You are given the user's story below. Apply the Dilemma Triangle methodology... Return JSON:"
       [] s = "Issues Generation" ->
            "Given the focus areas (and drivers), list 3-6 issues for each focus area... Return JSON:"
       [] s = "Tension Matrix" ->
            "Given the issues across focuses, generate a tension matrix... Return JSON:"
       [] s = "Dilemmas & Ranking" ->
            "From the tension matrix, generate dilemmas phrased as tradeoffs... Return JSON:"
       [] s = "Value Propositions" ->
            "For the top dilemmas, propose 2-5 concrete value propositions... Return JSON:"
       [] s = "SWOT Analysis" ->
            "Perform a SWOT analysis on each provided value proposition... Return JSON:"
       [] s = "Business Model Canvas" ->
            "Generate a Business Model Canvas (9 blocks) for each value proposition. Return JSON:"]

v_current_step == STEPS[v_step_index + 1]

v_StoryRecord(user_story) ==
  [step |-> "Story Input", prompt |-> strip(user_story),
   response |-> StorySavedLiteral, feedback |-> <<>>]

\* the Submit Story handler of the variant
SubmitVariant(user_story) ==
  IF strip(user_story) # <<>>
    THEN /\ v_story' = strip(user_story)
         /\ v_conversation' = Append(v_conversation, v_StoryRecord(user_story))
         /\ v_step_index' = v_step_index + 1
         /\ UNCHANGED v_report
    ELSE UNCHANGED variant

\* if len(st.session_state.conversation) <= st.session_state.step_index:
v_NeedsGeneration == Len(v_conversation) <= v_step_index

v_final_prompt ==
  << IF v_current_step \in DOMAIN v_PROMPTS THEN v_PROMPTS[v_current_step]
                                            ELSE "",
     "\n\nContext:\n" >> \o v_story
    \o << "\n\nPrevious Outputs:\n" >> \o JoinOutputs(v_conversation)

v_text_response(response) ==
  IF response.kind = "text" THEN response.text ELSE "Error: No valid response."

v_GeneratedRecord(response) ==
  [step |-> v_current_step, prompt |-> v_final_prompt,
   response |-> v_text_response(response), feedback |-> <<>>]

\* a run of the variant's script in which no button is clicked
RenderVariant ==
  IF v_current_step # "Story Input" /\ v_NeedsGeneration
       /\ backend.kind # "raise"
    THEN /\ v_conversation' =
              Append(v_conversation, v_GeneratedRecord(backend))
         /\ UNCHANGED << v_step_index, v_story, v_report >>
    ELSE UNCHANGED variant

\* the display loop of the variant reaches the record at the cursor
v_HasButtons ==
  /\ v_current_step # "Story Input"
  /\ ~v_NeedsGeneration
  /\ v_step_index < Len(v_conversation)

v_refined_text(refined) ==
  IF refined.kind = "text" THEN refined.text ELSE "Error: No refined response."

\* the assignment to "feedback" left out
v_RefinedRecordNoFeedback(item, refined, feedback_text) ==
  [item EXCEPT !.response = v_refined_text(refined)]

v_RefinedRecord(item, refined, feedback_text) ==
  [item EXCEPT !.response = v_refined_text(refined),
               !.feedback = feedback_text]

\* the Refine handler of the variant
RefineVariant(feedback_text) ==
  IF strip(feedback_text) # <<>> /\ backend.kind # "raise"
    THEN /\ v_conversation' =
              [v_conversation EXCEPT ![v_step_index + 1] =
                 v_RefinedRecord(v_conversation[v_step_index + 1], backend,
                                 feedback_text)]
         /\ UNCHANGED << v_step_index, v_story, v_report >>
    ELSE UNCHANGED variant

\* the Approve handler of the variant: at the last stage it shows a message
\* and changes nothing
ApproveVariant ==
  IF v_step_index < Len(STEPS) - 1
    THEN /\ v_step_index' = v_step_index + 1
         /\ UNCHANGED << v_conversation, v_story, v_report >>
    ELSE UNCHANGED variant

\* the Save Final Report button of the variant is on the page: the cursor is
\* at the last stage and the run got past the generate branch
v_SaveButton ==
  /\ v_step_index = Len(STEPS) - 1
  /\ ~v_NeedsGeneration

\* the Save Final Report handler of the variant
SaveVariant(io) ==
  /\ CASE io = "ok" -> v_report' = Document(v_conversation)
       [] io = "open fails" -> v_report' = v_report
       [] io = "write fails" -> v_report' = <<>>
  /\ UNCHANGED << v_step_index, v_conversation, v_story >>

----------------------------------------------------------------------------
(* The two controllers side by side: every event goes to both, with the    *)
(* same backend answer and the same file-system behaviour; a controller    *)
(* whose page does not show the button of the event takes no step.         *)

\* src/app.py does not show the button that was clicked
NoButton(kind, text) ==
  /\ event' = Ev(kind, text)
  /\ notice' = NoNotice
  /\ request' = NoRequest
  /\ UNCHANGED << pipeline, report, backend, backendChanges, calls,
                  branch_selection >>

PairRender == Render /\ RenderVariant

PairSubmit(user_story) ==
  /\ ~(current_step # "Story Input" /\ v_current_step # "Story Input")
  /\ IF current_step = "Story Input"
       THEN Submit(user_story) ELSE NoButton("submit", user_story)
  /\ IF v_current_step = "Story Input"
       THEN SubmitVariant(user_story) ELSE UNCHANGED variant

PairRefine(feedback_text) ==
  /\ ~(~HasButtons /\ ~v_HasButtons)
  /\ IF HasButtons
       THEN Refine(feedback_text) ELSE NoButton("refine", feedback_text)
  /\ IF v_HasButtons THEN RefineVariant(feedback_text) ELSE UNCHANGED variant

PairApprove ==
  /\ ~(~HasButtons /\ ~v_HasButtons)
  /\ IF HasButtons THEN Approve ELSE NoButton("approve", <<>>)
  /\ IF v_HasButtons THEN ApproveVariant ELSE UNCHANGED variant

PairSave(io) ==
  /\ ~(~completed /\ ~v_SaveButton)
  /\ IF completed THEN Save(io) ELSE NoButton("save", <<>>)
  /\ IF v_SaveButton THEN SaveVariant(io) ELSE UNCHANGED variant

PairBackendChange == BackendChange /\ UNCHANGED variant

NextPair ==
  \/ PairRender
  \/ \E user_story \in StoryTexts : PairSubmit(user_story)
  \/ \E feedback_text \in FeedbackTexts : PairRefine(feedback_text)
  \/ PairApprove
  \/ \E io \in IOOutcomes : PairSave(io)
  \/ PairBackendChange

SpecPair == Init /\ [][NextPair]_vars

----------------------------------------------------------------------------
(* src/app.py on its own: the variant takes no step                        *)

Next ==
  \/ Render /\ UNCHANGED variant
  \/ \E user_story \in StoryTexts : Submit(user_story) /\ UNCHANGED variant
  \/ \E feedback_text \in FeedbackTexts :
       Refine(feedback_text) /\ UNCHANGED variant
  \/ Approve /\ UNCHANGED variant
  \/ \E io \in IOOutcomes : Save(io) /\ UNCHANGED variant
  \/ BackendChange /\ UNCHANGED variant

Spec == Init /\ [][Next]_vars

\* every script run that st.rerun() or the user starts does run, and the
\* user keeps approving; the backend is under no obligation
FairSpec ==
  /\ Spec
  /\ WF_vars(Render /\ UNCHANGED variant)
  /\ WF_vars(Approve /\ UNCHANGED variant)
  /\ WF_vars(\E user_story \in StoryTexts :
               Submit(user_story) /\ UNCHANGED variant)

\* the controller together with the selectBranch operation, run against a
\* backend that keeps the answer it starts with
NextBranch ==
  \/ Render /\ UNCHANGED variant
  \/ \E user_story \in StoryTexts : Submit(user_story) /\ UNCHANGED variant
  \/ \E feedback_text \in FeedbackTexts :
       Refine(feedback_text) /\ UNCHANGED variant
  \/ Approve /\ UNCHANGED variant
  \/ \E io \in IOOutcomes : Save(io) /\ UNCHANGED variant
  \/ \E item \in BranchItems : SelectBranch(item) /\ UNCHANGED variant

SpecBranch == Init /\ [][NextBranch]_vars

----------------------------------------------------------------------------
(* Properties                                                              *)

\* the step is a run of the script triggered by an event of this kind (the
\* backend never changes its mind during a run)
ScriptRan(kind) == event'.kind = kind /\ backend' = backend

\* the record at the cursor after the step
ItemAfter == conversation'[step_index' + 1]

\* C1: log-cursor coupling - in every reachable state the log holds either
\* step_index or step_index + 1 records, never more and never less.
LogCursorCoupling ==
  Len(conversation) = step_index \/ Len(conversation) = step_index + 1

\* both cases of C1 at the far end of the pipeline, after refinements
LogCursorCouplingWitness ==
  /\ step_index = Len(STEPS) - 1
  /\ Len(conversation) = step_index
  /\ refineCalls >= 2
  /\ event.kind = "approve"

\* C2: monotonic cursor - step_index never decreases; when it changes it
\* grows by exactly one, and only in an accepted Submit Story (0 to 1) or in
\* an Approve; render/generate, refine, rejected operations and export leave
\* it alone.
MonotonicCursor ==
  [][ /\ step_index' >= step_index
      /\ step_index' # step_index =>
           /\ step_index' = step_index + 1
           /\ \/ /\ event'.kind = "submit"
                 /\ strip(event'.text) # <<>>
                 /\ step_index = 0
              \/ event'.kind = "approve"
      /\ event'.kind \in {"render", "refine", "save"} =>
           step_index' = step_index
      /\ notice' \in {StoryWarning, FeedbackWarning, UncaughtException,
                      SaveErrorNotice} =>
           step_index' = step_index ]_vars

\* the cursor has been moved to the last stage by an Approve
MonotonicCursorWitness ==
  /\ step_index = Len(STEPS) - 1
  /\ event.kind = "approve"
  /\ notice = ApprovedNotice

\* C3: when generate_content fails during the generation for stage k (it
\* raises, or its result has no text), the run does not raise: it appends a
\* record for stage k with response "Error: No valid response." and empty
\* feedback, and the log then holds step_index + 1 records.
GenerationFailureSwallowed ==
  [][ ( /\ ScriptRan("render")
        /\ step_index >= 1
        /\ Len(conversation) <= step_index
        /\ backend.kind \in {"notext", "raise"} ) =>
      ( /\ notice' # UncaughtException
        /\ Len(conversation') = step_index' + 1
        /\ ItemAfter.step = current_step
        /\ ItemAfter.response = ErrorNoValidResponse
        /\ ItemAfter.feedback = <<>> ) ]_vars

\* C4: the pipeline is never stuck - once the story is in, and whatever the
\* backend does, renders and approvals eventually complete the pipeline.
NeverStuck == (step_index >= 1) ~> completed

\* C5: at most one generation - for every stage the generate branch calls
\* the backend at most once, also when the call fails.
AtMostOneGeneration == \A k \in DOMAIN genCalls : genCalls[k] <= 1

\* C6: ensureGenerated is idempotent - a render while the record of the
\* current stage exists calls no backend and leaves step_index,
\* conversation, story and completed as they are.
EnsureGeneratedIdempotent ==
  [][ (ScriptRan("render") /\ Len(conversation) > step_index) =>
      (pipeline' = pipeline /\ calls' = calls) ]_vars

\* a render that found the record of a generated stage in place
EnsureGeneratedIdempotentWitness ==
  /\ event.kind = "render"
  /\ notice = NoNotice
  /\ step_index >= 1
  /\ Len(conversation) = step_index + 1
  /\ genCalls[step_index] = 1

\* C7: validation rejects empties - Submit Story with an empty or
\* whitespace-only text and Refine with an empty (or whitespace-only)
\* feedback are answered by a warning, call no backend, and leave
\* step_index, conversation, story and completed unchanged.
ValidationRejectsEmpties ==
  [][ ( /\ (ScriptRan("submit") \/ ScriptRan("refine"))
        /\ strip(event'.text) = <<>> ) =>
      ( /\ pipeline' = pipeline
        /\ calls' = calls
        /\ notice' = IF event'.kind = "submit" THEN StoryWarning
                                                ELSE FeedbackWarning ) ]_vars

\* a whitespace-only feedback has just been turned down, after the
\* pipeline had accepted a story
ValidationRejectsEmptiesWitness ==
  /\ event = Ev("refine", << " " >>)
  /\ notice = FeedbackWarning
  /\ story # <<>>
  /\ Len(conversation) = step_index + 1

\* C8 as stated: an accepted Submit Story happens only at step_index 0 with
\* an empty log, sets story to the text, appends one "Story Input" record
\* whose prompt is that text and whose response is the acknowledgement
\* literal, calls no backend, and sets step_index to 1.
SubmitStoresTheText ==
  [][ (ScriptRan("submit") /\ notice' = StorySubmitted) =>
      ( /\ step_index = 0
        /\ conversation = <<>>
        /\ story' = event'.text
        /\ conversation' =
             << [step |-> "Story Input", prompt |-> event'.text,
                 response |-> StorySavedLiteral, feedback |-> <<>>] >>
        /\ step_index' = 1
        /\ calls' = calls ) ]_vars

\* C8 amended: as above, with story and the record's prompt set to the text
\* stripped of leading and trailing whitespace; and a Submit Story event
\* never occurs once step_index >= 1.
SubmitStoresStrippedText ==
  [][ /\ ScriptRan("submit") => (step_index = 0 /\ conversation = <<>>)
      /\ (ScriptRan("submit") /\ notice' = StorySubmitted) =>
           ( /\ story' = strip(event'.text)
             /\ conversation' =
                  << [step |-> "Story Input", prompt |-> strip(event'.text),
                      response |-> StorySavedLiteral, feedback |-> <<>>] >>
             /\ step_index' = 1
             /\ completed' = completed
             /\ calls' = calls ) ]_vars

\* a story typed with a leading blank has been accepted
SubmitStoresStrippedTextWitness ==
  /\ event = Ev("submit", << " ", "a" >>)
  /\ notice = StorySubmitted
  /\ story = << "a" >>
  /\ step_index = 1

\* C9: refine overwrites in place - after a Refine whose backend call
\* returned text, the log has the same length and exactly one record of the
\* stage; that record has the backend's text as response and the feedback
\* text as feedback, its step and prompt are unchanged, as are all other
\* records, step_index, story and completed; and the refine and approve
\* buttons of the stage are still there, so Refine can be repeated.
RefineOverwritesInPlace ==
  [][ ( /\ ScriptRan("refine")
        /\ refineCalls' # refineCalls
        /\ backend.kind = "text" ) =>
      ( /\ Len(conversation') = Len(conversation)
        /\ step_index' = step_index
        /\ story' = story
        /\ completed' = completed
        /\ ItemAfter.response = backend.text
        /\ ItemAfter.feedback = event'.text
        /\ ItemAfter.step = Item(step_index).step
        /\ ItemAfter.prompt = Item(step_index).prompt
        /\ \A i \in 1..Len(conversation) :
             i # step_index + 1 => conversation'[i] = conversation[i]
        /\ Cardinality({i \in 1..Len(conversation') :
                          conversation'[i].step = current_step}) = 1
        /\ step_index' >= 1
        /\ step_index' < Len(conversation')
        /\ notice' = RefinedNotice ) ]_vars

\* the second of two refinements has replaced a response by a new text
RefineOverwritesInPlaceWitness ==
  /\ event.kind = "refine"
  /\ notice = RefinedNotice
  /\ refineCalls >= 2
  /\ backendChanges >= 1
  /\ Item(step_index).response \in BackendTexts
  /\ Item(step_index).feedback = event.text
  /\ Cardinality({i \in 1..Len(conversation) :
                    conversation[i].feedback # <<>>}) = 1

\* C10 as stated: when the backend call made by Refine yields no text, the
\* record at the cursor keeps its response and feedback.
RefineOverwritesOnlyOnSuccess ==
  [][ ( /\ ScriptRan("refine")
        /\ refineCalls' # refineCalls
        /\ backend.kind # "text" ) =>
      conversation' = conversation ]_vars

\* C10 amended: when the backend call made by Refine raises, the log is
\* left as it was; when it returns a result without text, the record at the
\* cursor gets "Error: No refined response." as response and the feedback
\* text as feedback.
RefineFailureEffect ==
  [][ ( /\ ScriptRan("refine")
        /\ refineCalls' # refineCalls
        /\ backend.kind # "text" ) =>
      IF backend.kind = "raise"
        THEN conversation' = conversation /\ notice' = UncaughtException
        ELSE /\ conversation' =
                  [conversation EXCEPT
                     ![step_index + 1].response = ErrorNoRefinedResponse,
                     ![step_index + 1].feedback = event'.text]
             /\ notice' = RefinedNotice ]_vars

\* a generated response has been replaced by the refine error literal
RefineFailureEffectWitness ==
  /\ event.kind = "refine"
  /\ notice = RefinedNotice
  /\ Item(step_index).response = ErrorNoRefinedResponse
  /\ Item(step_index).feedback = event.text
  /\ genCalls[step_index] = 1

\* C11: approve - an Approve happens only while the record at the cursor
\* exists (step_index >= 1 and step_index < len(conversation)); before the
\* last stage it adds exactly one to step_index and leaves completed, at
\* the last stage it sets completed and leaves step_index; in both cases
\* the log (and the story) is exactly as before.
ApproveEffect ==
  [][ ScriptRan("approve") =>
      ( /\ step_index >= 1
        /\ step_index < Len(conversation)
        /\ conversation' = conversation
        /\ story' = story
        /\ calls' = calls
        /\ IF step_index < Len(STEPS) - 1
             THEN step_index' = step_index + 1 /\ completed' = completed
             ELSE step_index' = step_index /\ completed' = TRUE ) ]_vars

\* the approve of the last stage but one has moved the cursor to the last
ApproveEffectWitness ==
  /\ event.kind = "approve"
  /\ notice = ApprovedNotice
  /\ step_index = Len(STEPS) - 1
  /\ Len(conversation) = Len(STEPS) - 1
  /\ ~completed

\* C12: terminal stability - once completed is true, no step (an Approve in
\* particular) changes step_index or completed.
TerminalStability ==
  [][ completed => (completed' /\ step_index' = step_index) ]_vars

\* an Approve clicked again after completion and after an export
TerminalStabilityWitness ==
  /\ completed
  /\ event.kind = "approve"
  /\ notice = CompletedNotice
  /\ report # <<>>

\* C13: the cursor stays within the catalog (0 <= step_index <=
\* len(STEPS) - 1), and completed implies that the cursor is at the last
\* stage and the log holds a record for every stage.
CursorInCatalog ==
  /\ step_index \in 0..(Len(STEPS) - 1)
  /\ completed => ( /\ step_index = Len(STEPS) - 1
                    /\ Len(conversation) = Len(STEPS) )

\* the pipeline completed by the approve of the last stage
CursorInCatalogWitness ==
  /\ completed
  /\ step_index = Len(STEPS) - 1
  /\ Len(conversation) = Len(STEPS)
  /\ event.kind = "approve"
  /\ report = <<>>

\* C14: the log is append-only and in stage order - record i always carries
\* the name STEPS[i], and no step shortens the log or changes the step name
\* of a record.
LogInStageOrder ==
  /\ [](\A i \in 1..Len(conversation) :
          i <= Len(STEPS) /\ conversation[i].step = STEPS[i])
  /\ [][ /\ Len(conversation') >= Len(conversation)
         /\ \A i \in 1..Len(conversation) :
              conversation'[i].step = conversation[i].step ]_vars

\* a full log, one record per stage, two of them refined
LogInStageOrderWitness ==
  /\ Len(conversation) = Len(STEPS)
  /\ Cardinality({i \in 1..Len(conversation) :
                    conversation[i].feedback # <<>>}) = 2

\* C15: the story is set once - from the accepted Submit Story on, story
\* never changes, and while the log is non-empty story equals the prompt of
\* record 0.
StorySetOnce ==
  /\ [](Len(conversation) > 0 =>
          (story # <<>> /\ story = conversation[1].prompt))
  /\ [][ step_index >= 1 => story' = story ]_vars

\* a one-character story, unchanged at the end of a run with a
\* refinement and an export
StorySetOnceWitness ==
  /\ completed
  /\ report # <<>>
  /\ refineCalls >= 1
  /\ story = << "a" >>
  /\ conversation[1].prompt = << "a" >>
  /\ Len(report[1]) = 9

SelectBranchEffect ==
  [][ ScriptRan("select") =>
      ( /\ branch_selection' = event'.text[1]
        /\ branch_selection' \in BranchItems
        /\ pipeline' = pipeline
        /\ report' = report
        /\ calls' = calls ) ]_vars

\* a selection made after the cursor has moved past the SWOT stage and the
\* last stage has been generated
SelectBranchEffectWitness ==
  /\ event = Ev("select", << "swot entry 2" >>)
  /\ branch_selection = "swot entry 2"
  /\ step_index = Len(STEPS) - 1
  /\ Len(conversation) = Len(STEPS)

\* C18: export is read-only - a Save Final Report run, successful or not,
\* leaves step_index, conversation, story and completed unchanged and calls
\* no backend; after a successful one the document has one section per
\* record, in log order, with the stage name, the prompt and the response,
\* and with the feedback block exactly when the record's feedback is not
\* empty.
ExportReadOnly ==
  [][ ScriptRan("save") =>
      ( /\ pipeline' = pipeline
        /\ calls' = calls
        /\ notice' \in {SavedNotice, SaveErrorNotice}
        /\ notice' = SavedNotice =>
             /\ Len(report') = Len(conversation)
             /\ \A i \in 1..Len(conversation) :
                  LET c == conversation[i]
                      head == << "## ", c.step, "\n", "### Prompt:\n" >>
                                \o c.prompt
                                \o << "\n\n", "### Response:\n", c.response,
                                      "\n\n" >>
                  IN  report'[i] =
                        IF c.feedback = <<>>
                          THEN head
                          ELSE head \o << "### Feedback:\n" >> \o c.feedback
                                    \o << "\n\n" >> ) ]_vars

\* a report written from a log with a refined and an unrefined stage
ExportReadOnlyWitness ==
  /\ event.kind = "save"
  /\ notice = SavedNotice
  /\ Len(report) = Len(STEPS)
  /\ \E i, j \in 2..Len(conversation) :
       /\ conversation[i].feedback # <<>>
       /\ conversation[j].feedback = <<>>
       /\ report[i][Len(report[i]) - 2] = "### Feedback:\n"
       /\ report[j][Len(report[j]) - 2] = "### Response:\n"

\* C19: refine reaches only the record at the cursor - a Refine happens only
\* while the record with index step_index exists, and no step changes a
\* record the cursor has moved past.
ApprovedRecordsFrozen ==
  [][ /\ ScriptRan("refine") =>
           (step_index >= 1 /\ step_index < Len(conversation))
      /\ \A i \in 1..Len(conversation) :
           i <= step_index => conversation'[i] = conversation[i] ]_vars

\* a refine at the cursor, after a refined stage has been approved
ApprovedRecordsFrozenWitness ==
  /\ event.kind = "refine"
  /\ notice = RefinedNotice
  /\ Item(step_index).feedback # <<>>
  /\ \E i \in 2..step_index : conversation[i].feedback # <<>>

\* C20: a refinement prompt embeds the current response - the prompt a
\* Refine passes to the backend is the refine instruction, the feedback
\* text of this Refine and the response the record holds at that moment
\* (after an earlier Refine: the response that Refine stored).
RefinePromptEmbedsCurrent ==
  [][ (ScriptRan("refine") /\ refineCalls' # refineCalls) =>
      request' =
        << "Refine the following output based on this feedback.\n\n",
           "Feedback:\n" >> \o event'.text
          \o << "\n\nOriginal Output:\n", Item(step_index).response >> ]_vars

\* the second refine of a stage has sent the response the first one stored,
\* which is not the response the generation had produced
RefinePromptEmbedsCurrentWitness ==
  /\ event.kind = "refine"
  /\ refineCalls >= 2
  /\ genCalls[step_index] = 1
  /\ request[Len(request)] = ErrorNoRefinedResponse
  /\ Cardinality({i \in 1..Len(conversation) :
                    conversation[i].feedback # <<>>}) = 1

\* the pieces of prompt p after position off are the outputs of the records
\* of conv in log order: for each record the header "### Step: ", the stage
\* name, a newline and the response, with a blank line between two records
PriorOutputsAre(p, off, conv) ==
  /\ Len(p) = off + (IF conv = <<>> THEN 0 ELSE 5 * Len(conv) - 1)
  /\ \A i \in 1..Len(conv) :
       LET at == off + 5 * (i - 1)
       IN  /\ p[at + 1] = "### Step: "
           /\ p[at + 2] = conv[i].step
           /\ p[at + 3] = "\n"
           /\ p[at + 4] = conv[i].response
           /\ i < Len(conv) => p[at + 5] = "\n\n"

\* prompt p is the template of the stage, the story st and the outputs of
\* the records of conv
IsPromptFor(p, stage, st, conv) ==
  /\ Len(p) >= 3 + Len(st)
  /\ p[1] = PROMPTS[stage]
  /\ p[2] = "\n\nContext:\n"
  /\ SubSeq(p, 3, 2 + Len(st)) = st
  /\ p[3 + Len(st)] = "\n\nPrevious Outputs:\n"
  /\ PriorOutputsAre(p, 3 + Len(st), conv)

\* C21: the prompt of a generation - the prompt sent for stage k >= 1 is the
\* stage's template, then the story, then the outputs of all records 0..k-1
\* in log order with the responses they hold when the generation runs (a
\* response that a Refine replaced is the one fed forward); the record the
\* generation appends stores that prompt.
PromptFeedsCurrentResponses ==
  [][ (ScriptRan("render") /\ request' # NoRequest) =>
      ( /\ step_index >= 1
        /\ IsPromptFor(request', STEPS[step_index + 1], story, conversation)
        /\ Len(conversation) = step_index
        /\ notice' = GeneratedNotice =>
             conversation'[Len(conversation')].prompt = request' ) ]_vars

\* a generation whose prompt carries a response that only a Refine of the
\* stage before can have stored
PromptFeedsCurrentResponsesWitness ==
  /\ event.kind = "render"
  /\ notice = GeneratedNotice
  /\ step_index >= 2
  /\ Len(conversation) = step_index + 1
  /\ Item(step_index - 1).response = ErrorNoRefinedResponse
  /\ Item(step_index - 1).feedback # <<>>
  /\ request[Len(request)] = ErrorNoRefinedResponse
  /\ Item(step_index).prompt = request

\* C22: stored prompts stay consistent with the log - in every reachable
\* state, for every record k >= 1, the prior-outputs part of the record's
\* prompt is the concatenation of the outputs of records 0..k-1 as they are
\* now.
StoredPromptsConsistent ==
  \A k \in 2..Len(conversation) :
    /\ Len(conversation[k].prompt) >= 3 + Len(story)
    /\ PriorOutputsAre(conversation[k].prompt, 3 + Len(story),
                       SubSeq(conversation, 1, k - 1))

\* a complete log in which the first and the last generated stage were
\* refined
StoredPromptsConsistentWitness ==
  /\ Len(conversation) = Len(STEPS)
  /\ conversation[2].feedback # <<>>
  /\ conversation[2].response = ErrorNoRefinedResponse
  /\ conversation[Len(STEPS)].feedback # <<>>
  /\ event.kind = "refine"

\* C23: generation is serialized by cursor order - a generation for stage k
\* runs only while step_index = k and the log holds exactly the records of
\* stages 0..k-1; the cursor leaves a stage k >= 1 only by an Approve of the
\* record of stage k, one stage at a time, so the generation for stage k + 1
\* comes after approve(k); and one run of the script makes at most one call
\* of the backend, a generation or a refinement.
GenerationSerialized ==
  [][ /\ (ScriptRan("render") /\ request' # NoRequest) =>
           ( /\ step_index >= 1
             /\ Len(conversation) = step_index
             /\ \A i \in 1..step_index : conversation[i].step = STEPS[i] )
      /\ step_index' # step_index =>
           ( /\ step_index' = step_index + 1
             /\ Len(conversation') = step_index'
             /\ request' = NoRequest
             /\ step_index >= 1 => ScriptRan("approve") )
      /\ ~(genCalls' # genCalls /\ refineCalls' # refineCalls)
      /\ refineCalls' \in {refineCalls, refineCalls + 1}
      /\ \A i, j \in DOMAIN genCalls :
           /\ genCalls'[i] \in {genCalls[i], genCalls[i] + 1}
           /\ (genCalls'[i] # genCalls[i] /\ genCalls'[j] # genCalls[j])
                => i = j ]_vars

\* the generation of the last stage, every stage generated exactly once
GenerationSerializedWitness ==
  /\ event.kind = "render"
  /\ notice = GeneratedNotice
  /\ step_index = Len(STEPS) - 1
  /\ \A i \in DOMAIN genCalls : genCalls[i] = 1

\* C25: the finalized log is stable - once completed is true no step changes
\* a record of the conversation.
FinalizedLogStable ==
  [][ completed => conversation' = conversation ]_vars

\* C24: save only after the last approval - every run that a click on Save
\* Final Report triggers comes after an Approve of the last stage, "Business
\* Model Canvas" (completed, which only that Approve sets, records it), and
\* the log it exports has len(STEPS) records.
SaveAfterLastApproval ==
  [][ ScriptRan("save") =>
      ( /\ completed
        /\ Len(conversation) = Len(STEPS) ) ]_vars

\* C26: the two controllers implement the same state machine - run side by
\* side on the same events and the same backend answers, src/app.py and
\* src/unnamed/part_000 have the same step_index and the same conversation
\* (stage names, responses, feedback) in every reachable state.
VariantsAgree ==
  /\ v_step_index = step_index
  /\ Len(v_conversation) = Len(conversation)
  /\ \A i \in 1..Len(conversation) :
       /\ v_conversation[i].step = conversation[i].step
       /\ v_conversation[i].response = conversation[i].response
       /\ v_conversation[i].feedback = conversation[i].feedback

\* both controllers at the end of the pipeline, the last stage approved and
\* then refined, an earlier stage refined too; the prompts they stored for
\* the last stage are built from different templates
VariantsAgreeWitness ==
  /\ completed
  /\ event.kind = "refine"
  /\ notice = RefinedNotice
  /\ Len(v_conversation) = Len(STEPS)
  /\ v_step_index = Len(STEPS) - 1
  /\ v_conversation[Len(STEPS)].feedback # <<>>
  /\ v_conversation[2].response = ErrorNoRefinedResponse
  /\ v_conversation[Len(STEPS)].prompt # conversation[Len(STEPS)].prompt

====
